---------------------------- MODULE Spec2Model ----------------------------
(***************************************************************************)
(* A model of the revenue engine of customer-analysis (src/src/App.tsx):   *)
(* the amount normalizer cleanCurrencyString, calculateMetrics (monthly    *)
(* metrics, quarterly rollup, customer summaries) and calculateCohortData, *)
(* together with the application around them: the upload handler and the   *)
(* parsers' completion callbacks, the persistence in localStorage, the     *)
(* render of the Key Metrics cards and the dashboard's filters.            *)
(*                                                                         *)
(* Representation.                                                         *)
(*  - A JavaScript string is a sequence of one-character strings.          *)
(*  - A JavaScript number is an exact rational [n, d] in lowest terms      *)
(*    with d > 0 (floating-point rounding is not modelled).                *)
(*  - A JavaScript value is a record [t, v, s]: its typeof tag, its number *)
(*    (when t = "number") and its characters (when t = "string").          *)
(*  - A month key "YYYY-MM" is the integer YYYYMM: for four-digit years    *)
(*    the lexicographic order of the strings is the order of the integers, *)
(*    split('-').map(Number) is (k \div 100, k % 100) and the template     *)
(*    `${y}-${pad2(m)}` is y * 100 + m.                                    *)
(***************************************************************************)
EXTENDS Integers, Sequences, FiniteSets, TLC

VARIABLES
    rawValue,           \* the cell value handed to cleanCurrencyString
    amount,             \* <<>> before the call, <<result>> after it
    pending,            \* parses in flight: the rows the parser will deliver
    customerData,       \* useState customerData
    metrics,            \* useState metrics
    customerSummaries,  \* useState customerSummaries
    filteredCustomers,  \* useState filteredCustomers
    cohortData,         \* useState cohortData
    raised,             \* TRUE when the last callback ended in a TypeError
    storage,            \* localStorage: each key absent (<<>>) or <<its text>>
    renderRaised,       \* TRUE when the last render ended in a TypeError
    selected            \* the file input's file: <<>> or <<its rows>>

vars == <<rawValue, amount, pending, customerData, metrics,
          customerSummaries, filteredCustomers, cohortData, raised,
          storage, renderRaised, selected>>

(***************************************************************************)
(* Bounds of the model.                                                    *)
(***************************************************************************)
MaxLen == 3         \* longest enumerated cell string handed to the normalizer
MaxEdits == 3       \* most names and cells of a selected file that differ from
                    \* an ordinary name and a zero

(***************************************************************************)
(* Exact rational arithmetic for JavaScript numbers.                       *)
(***************************************************************************)
Abs(x) == IF x < 0 THEN -x ELSE x

RECURSIVE Gcd(_, _)
Gcd(a, b) == IF b = 0 THEN a ELSE Gcd(b, a % b)

Reduce(n, d, g) ==
    IF d < 0 THEN [n |-> (-n) \div g, d |-> (-d) \div g]
    ELSE [n |-> n \div g, d |-> d \div g]

Rat(n, d) == Reduce(n, d, Gcd(Abs(n), Abs(d)))
RInt(k) == [n |-> k, d |-> 1]
Zero == RInt(0)
RAdd(a, b) == Rat(a.n * b.d + b.n * a.d, a.d * b.d)
RSub(a, b) == Rat(a.n * b.d - b.n * a.d, a.d * b.d)
RMul(a, b) == Rat(a.n * b.n, a.d * b.d)
RDiv(a, b) == Rat(a.n * b.d, a.d * b.n)
RGt(a, b) == a.n * b.d > b.n * a.d
RGe(a, b) == a.n * b.d >= b.n * a.d

\* part / whole * 100
Percent(part, whole) == RMul(RDiv(part, whole), RInt(100))

RECURSIVE Pow10(_)
Pow10(k) == IF k = 0 THEN 1 ELSE 10 * Pow10(k - 1)

RECURSIVE SumRat(_)
SumRat(xs) == IF xs = <<>> THEN Zero ELSE RAdd(Head(xs), SumRat(Tail(xs)))

(***************************************************************************)
(* JavaScript values and strings.                                          *)
(***************************************************************************)
NumberValue(r) == [t |-> "number", v |-> r, s |-> <<>>]
StringValue(str) == [t |-> "string", v |-> Zero, s |-> str]
Undefined == [t |-> "undefined", v |-> Zero, s |-> <<>>]
Null == [t |-> "null", v |-> Zero, s |-> <<>>]

WhiteSpace == {" "}
Digits == {"0", "1", "2", "3", "4", "5", "6", "7", "8", "9"}
DigitVal(c) ==
    CASE c = "0" -> 0 [] c = "1" -> 1 [] c = "2" -> 2 [] c = "3" -> 3
      [] c = "4" -> 4 [] c = "5" -> 5 [] c = "6" -> 6 [] c = "7" -> 7
      [] c = "8" -> 8 [] c = "9" -> 9

\* !value: undefined, null, the empty string and 0 are falsy.
Falsy(value) ==
    \/ value.t \in {"undefined", "null"}
    \/ value.t = "string" /\ value.s = <<>>
    \/ value.t = "number" /\ value.v = Zero

\* value || fallback
OrElse(value, fallback) == IF Falsy(value) THEN fallback ELSE value

RECURSIVE TrimStart(_)
TrimStart(str) ==
    IF str # <<>> /\ Head(str) \in WhiteSpace THEN TrimStart(Tail(str)) ELSE str

RECURSIVE TrimEnd(_)
TrimEnd(str) ==
    IF str # <<>> /\ str[Len(str)] \in WhiteSpace
    THEN TrimEnd(SubSeq(str, 1, Len(str) - 1))
    ELSE str

\* String.prototype.trim
Trim(str) == TrimEnd(TrimStart(str))

\* str.replace(/[\s$,]/g, ''): every whitespace, '$' and ',' is removed.
RECURSIVE StripCurrency(_)
StripCurrency(str) ==
    IF str = <<>> THEN <<>>
    ELSE IF Head(str) \in WhiteSpace \cup {"$", ","}
         THEN StripCurrency(Tail(str))
         ELSE <<Head(str)>> \o StripCurrency(Tail(str))

\* The longest prefix of str made of decimal digits.
RECURSIVE DigitPrefix(_)
DigitPrefix(str) ==
    IF str # <<>> /\ Head(str) \in Digits
    THEN <<Head(str)>> \o DigitPrefix(Tail(str))
    ELSE <<>>

RECURSIVE DigitsValue(_)
DigitsValue(ds) ==
    IF ds = <<>> THEN 0
    ELSE 10 * DigitsValue(SubSeq(ds, 1, Len(ds) - 1)) + DigitVal(ds[Len(ds)])

\* parseFloat, in steps.  Leading white space is skipped, then the longest
\* prefix that is a StrDecimalLiteral ([+-] digits [. digits] or
\* [+-] . digits) is the value; whatever follows is ignored; no such prefix
\* is NaN.  Exponents and "Infinity" need characters outside the alphabet of
\* the enumerated cells.
NaN == [nan |-> TRUE, v |-> Zero]

\* The literal with integer digits ip and fraction digits fp.
ParsedLiteral(ip, fp, neg) ==
    IF ip = <<>> /\ fp = <<>> THEN NaN
    ELSE [ nan |-> FALSE,
           v |-> Rat((IF neg THEN -1 ELSE 1)
                        * (DigitsValue(ip) * Pow10(Len(fp)) + DigitsValue(fp)),
                     Pow10(Len(fp))) ]

\* ParseFraction as parseInt would have it: the fraction is dropped.
ParseWithoutFraction(ip, rest, neg) == ParsedLiteral(ip, <<>>, neg)

\* rest is what follows the integer digits.
ParseFraction(ip, rest, neg) ==
    IF rest # <<>> /\ Head(rest) = "."
    THEN ParsedLiteral(ip, DigitPrefix(Tail(rest)), neg)
    ELSE ParsedLiteral(ip, <<>>, neg)

ParseDigits(ip, body, neg) == ParseFraction(ip, SubSeq(body, Len(ip) + 1, Len(body)), neg)

ParseUnsigned(body, neg) == ParseDigits(DigitPrefix(body), body, neg)

ParseSigned(str) ==
    IF str # <<>> /\ Head(str) \in {"+", "-"}
    THEN ParseUnsigned(Tail(str), Head(str) = "-")
    ELSE ParseUnsigned(str, FALSE)

parseFloat(str) == ParseSigned(TrimStart(str))

\* isNaN(numValue) ? 0 : numValue
NumberOrZero(numValue) == IF numValue.nan THEN Zero ELSE numValue.v

\* cleanCurrencyString without the '$' and ',' stripping.
cleanCurrencyStringNoStrip(value) ==
    IF value.t = "number" THEN value.v
    ELSE IF Falsy(value) THEN Zero
    ELSE IF Trim(value.s) \in {<<"-">>, <<"$", "-">>, <<"N", "/", "A">>} THEN Zero
    ELSE NumberOrZero(parseFloat(value.s))

cleanCurrencyString(value) ==
    IF value.t = "number" THEN value.v
    ELSE IF Falsy(value) THEN Zero
    ELSE IF Trim(value.s) \in {<<"-">>, <<"$", "-">>, <<"N", "/", "A">>} THEN Zero
    ELSE NumberOrZero(parseFloat(StripCurrency(value.s)))

(***************************************************************************)
(* Arrays, rows and month keys.                                            *)
(***************************************************************************)
\* arr[i] with JavaScript's 0-based index: <<element>>, or <<>> for the
\* undefined an out-of-range index yields.
JsAt(arr, i) == IF i >= 0 /\ i < Len(arr) THEN <<arr[i + 1]>> ELSE <<>>

\* customer[key], where key is <<k>> or <<>> (undefined, which names no
\* column): the cell's string, or undefined when the row has no such key.
Lookup(customer, key) ==
    IF key # <<>> /\ key[1] \in DOMAIN customer.cells
    THEN StringValue(customer.cells[key[1]])
    ELSE Undefined

FormatKey(year, month) == year * 100 + month
KeyYear(k) == k \div 100
KeyMonth(k) == k % 100

\* /^\d{4}-\d{2}$/.test(key): four digits, a dash, two digits.
MatchesMonthPattern(k) == k >= 0 /\ k <= 999999

RECURSIVE SortAsc(_)
SortAsc(S) ==
    IF S = {} THEN <<>>
    ELSE <<CHOOSE x \in S : \A y \in S : x <= y>>
             \o SortAsc(S \ {CHOOSE x \in S : \A y \in S : x <= y})

Least(S) == CHOOSE x \in S : \A y \in S : x <= y
Greatest(S) == CHOOSE x \in S : \A y \in S : x >= y

\* row => row.Customer && row.Customer !== 'Totals' && row.Customer.trim() !== ''
KeepRow(row) ==
    /\ row.Customer # <<>>
    /\ row.Customer # <<"T", "o", "t", "a", "l", "s">>
    /\ Trim(row.Customer) # <<>>

RECURSIVE FilterRows(_)
FilterRows(data) ==
    IF data = <<>> THEN <<>>
    ELSE (IF KeepRow(Head(data)) THEN <<Head(data)>> ELSE <<>>) \o FilterRows(Tail(data))

\* Object.keys(customerData[0]).filter(key => /^\d{4}-\d{2}$/.test(key)).sort()
DateColumnsOf(customers) ==
    SortAsc({k \in DOMAIN customers[1].cells : MatchesMonthPattern(k)})

\* cleanCurrencyString(customer[key])
Revenue(customer, key) == cleanCurrencyString(Lookup(customer, key))

\* customers.reduce((sum, customer) => sum + cleanCurrencyString(customer[key]), 0)
TotalRevenue(customers, key) ==
    SumRat([c \in 1..Len(customers) |-> Revenue(customers[c], key)])

(***************************************************************************)
(* calculateMetrics: the monthly metrics.                                  *)
(***************************************************************************)
\* Mrr over the first customer alone.
MrrOfFirstCustomer(customers, date) == Revenue(customers[1], <<date>>)

Mrr(customers, date) == TotalRevenue(customers, <<date>>)

\* PositiveChange without the test of the sign.
SignedChange(currentMrr, previousMrr) == RSub(currentMrr, previousMrr)

\* mrrChange > 0 ? mrrChange : 0
PositiveChange(currentMrr, previousMrr) ==
    IF RGt(RSub(currentMrr, previousMrr), Zero) THEN RSub(currentMrr, previousMrr) ELSE Zero

NetNewRevenue(customers, dateColumns, index) ==
    IF index > 0
    THEN RMul(SumRat([c \in 1..Len(customers) |->
                  PositiveChange(Revenue(customers[c], <<dateColumns[index + 1]>>),
                                 Revenue(customers[c], JsAt(dateColumns, index - 1)))]),
              RInt(12))
    ELSE Zero

\* previousARR ? ((arr - previousARR) / previousARR) * 100 : 0
GrowthFrom(arr, previousARR) ==
    IF previousARR # Zero THEN Percent(RSub(arr, previousARR), previousARR) ELSE Zero

\* GrowthRate against the month before instead of three months before.
GrowthRateOverOneMonth(customers, dateColumns, index, arr) ==
    IF index > 0
    THEN GrowthFrom(arr, SumRat([c \in 1..Len(customers) |->
             RMul(Revenue(customers[c], JsAt(dateColumns, index - 1)), RInt(12))]))
    ELSE Zero

GrowthRate(customers, dateColumns, index, arr) ==
    IF index > 0
    THEN GrowthFrom(arr, SumRat([c \in 1..Len(customers) |->
             RMul(Revenue(customers[c], JsAt(dateColumns, index - 3)), RInt(12))]))
    ELSE Zero

\* new Set(customers.filter(revenue at key > 0).map(customer => customer.Customer))
ActiveNames(customers, key) ==
    {customers[c].Customer :
        c \in {c \in 1..Len(customers) : RGt(Revenue(customers[c], key), Zero)}}

\* customers.filter(customer => names.has(customer.Customer))
RECURSIVE WithNames(_, _)
WithNames(customers, names) ==
    IF customers = <<>> THEN <<>>
    ELSE (IF Head(customers).Customer \in names THEN <<Head(customers)>> ELSE <<>>)
             \o WithNames(Tail(customers), names)

\* RatioOr100 with 0 in place of 100.
RatioOrZero(currentRevenue, previousRevenue) ==
    IF previousRevenue # Zero THEN Percent(currentRevenue, previousRevenue) ELSE Zero

\* previousRevenue ? (currentRevenue / previousRevenue) * 100 : 100
RatioOr100(currentRevenue, previousRevenue) ==
    IF previousRevenue # Zero THEN Percent(currentRevenue, previousRevenue) ELSE RInt(100)

MembersRatio(members, date, referenceKey) ==
    RatioOr100(TotalRevenue(members, <<date>>), TotalRevenue(members, referenceKey))

\* RetentionRatio over every customer instead of the reference cohort.
RetentionRatioOfAll(customers, date, referenceKey) ==
    MembersRatio(customers, date, referenceKey)

\* The retention ratio both NRR computations share: the customers with
\* revenue > 0 at the reference key, their revenue at date over their
\* revenue at the reference key.
RetentionRatio(customers, date, referenceKey) ==
    MembersRatio(WithNames(customers, ActiveNames(customers, referenceKey)), date, referenceKey)

\* Nrr with 100 in place of 0 for the first month.
NrrFrom100(customers, dateColumns, index) ==
    IF index > 0
    THEN RetentionRatio(customers, dateColumns[index + 1], JsAt(dateColumns, index - 1))
    ELSE RInt(100)

Nrr(customers, dateColumns, index) ==
    IF index > 0
    THEN RetentionRatio(customers, dateColumns[index + 1], JsAt(dateColumns, index - 1))
    ELSE Zero

\* ActiveCustomers counting every customer with nonzero revenue.
ActiveCustomersNonZero(customers, date) ==
    Cardinality({c \in 1..Len(customers) : Revenue(customers[c], <<date>>) # Zero})

ActiveCustomers(customers, date) ==
    Cardinality({c \in 1..Len(customers) : RGt(Revenue(customers[c], <<date>>), Zero)})

\* activeCustomers ? (arr / activeCustomers) : 0
Acv(arr, activeCustomers) ==
    IF activeCustomers # 0 THEN RDiv(arr, RInt(activeCustomers)) ELSE Zero

Arr(mrr) == RMul(mrr, RInt(12))

MetricOf(customers, dateColumns, index, mrr, activeCustomers) ==
    [ date |-> dateColumns[index + 1],
      mrr |-> mrr,
      arr |-> Arr(mrr),
      growthRate |-> GrowthRate(customers, dateColumns, index, Arr(mrr)),
      nrr |-> Nrr(customers, dateColumns, index),
      netNewRevenue |-> NetNewRevenue(customers, dateColumns, index),
      acv |-> Acv(Arr(mrr), activeCustomers),
      activeCustomers |-> activeCustomers,
      quarterly |-> <<>> ]

MonthlyMetric(customers, dateColumns, index) ==
    MetricOf(customers, dateColumns, index,
             Mrr(customers, dateColumns[index + 1]),
             ActiveCustomers(customers, dateColumns[index + 1]))

MetricsData(customers, dateColumns) ==
    [i \in 1..Len(dateColumns) |-> MonthlyMetric(customers, dateColumns, i - 1)]

(***************************************************************************)
(* calculateMetrics: the quarterly rollup (metricsData.forEach).           *)
(***************************************************************************)
\* metricsData.find(m => m.date === date): <<metric>> or <<>>.
FindMetric(metricsData, date) ==
    IF \E i \in 1..Len(metricsData) : metricsData[i].date = date
    THEN <<metricsData[Least({i \in 1..Len(metricsData) : metricsData[i].date = date})]>>
    ELSE <<>>

\* IsQuarterEnd one month late.
IsQuarterStart(month) == month % 3 = 1

\* Mar, Jun, Sep, Dec: month % 3 === 0
IsQuarterEnd(month) == month % 3 = 0

\* PreviousQuarterDate two months back instead of three.
PreviousQuarterDateTwoBack(year, month) ==
    IF month - 2 < 1
    THEN FormatKey(year - 1, month - 2 + 12)
    ELSE FormatKey(year, month - 2)

PreviousQuarterDate(year, month) ==
    IF month - 3 < 1
    THEN FormatKey(year - 1, month - 3 + 12)
    ELSE FormatKey(year, month - 3)

\* previousQuarterMetric?.mrr || 0
PreviousQuarterlyMrr(previousQuarterMetric) ==
    IF previousQuarterMetric # <<>> THEN previousQuarterMetric[1].mrr ELSE Zero

QuarterlyRecord(customers, metric, previousQuarterDate, previousQuarterlyMrr, quarterlyActiveCustomers) ==
    [ quarterlyMrr |-> metric.mrr,
      quarterlyArr |-> metric.arr,
      quarterlyGrowth |-> GrowthFrom(metric.mrr, previousQuarterlyMrr),
      quarterlyNrr |-> RetentionRatio(customers, metric.date, <<previousQuarterDate>>),
      quarterlyNetNew |-> RMul(RSub(metric.mrr, previousQuarterlyMrr), RInt(12)),
      quarterlyAcv |-> Acv(metric.arr, quarterlyActiveCustomers),
      formattedQuarter |->
          [ quarter |-> ((KeyMonth(metric.date) - 1) \div 3) + 1,
            yy |-> KeyYear(metric.date) % 100 ],
      quarterlyActiveCustomers |-> quarterlyActiveCustomers ]

QuarterlyOf(customers, metricsData, metric, previousQuarterDate) ==
    QuarterlyRecord(customers, metric, previousQuarterDate,
                    PreviousQuarterlyMrr(FindMetric(metricsData, previousQuarterDate)),
                    ActiveCustomers(customers, metric.date))

QuarterlyFields(customers, metricsData, metric) ==
    QuarterlyOf(customers, metricsData, metric,
                PreviousQuarterDate(KeyYear(metric.date), KeyMonth(metric.date)))

\* The metric after the forEach pass: the quarterly fields are attached
\* (quarterly = <<fields>>) on a quarter end and left absent otherwise.
AddQuarterly(customers, metricsData, metric) ==
    IF IsQuarterEnd(KeyMonth(metric.date))
    THEN [metric EXCEPT !.quarterly = <<QuarterlyFields(customers, metricsData, metric)>>]
    ELSE metric

RollUp(customers, metricsData) ==
    [i \in 1..Len(metricsData) |-> AddQuarterly(customers, metricsData, metricsData[i])]

WithQuarterly(customers, dateColumns) == RollUp(customers, MetricsData(customers, dateColumns))

(***************************************************************************)
(* calculateMetrics: the customer summaries.                               *)
(***************************************************************************)
MonthText(k) == [text |-> "month", key |-> k]
NotAvailable == [text |-> "N/A", key |-> 0]
StillActive == [text |-> "--", key |-> 0]

\* The positions of dateColumns where the customer has revenue > 0.
RevenuePositions(customer, dateColumns) ==
    {i \in 1..Len(dateColumns) : RGt(Revenue(customer, <<dateColumns[i]>>), Zero)}

FirstOf(dateColumns, positions) ==
    IF positions = {} THEN <<>> ELSE <<dateColumns[Least(positions)]>>

LastOf(dateColumns, positions) ==
    IF positions = {} THEN <<>> ELSE <<dateColumns[Greatest(positions)]>>

\* dateColumns.find(date => cleanCurrencyString(customer[date]) > 0)
FirstRevenueDate(customer, dateColumns) ==
    FirstOf(dateColumns, RevenuePositions(customer, dateColumns))

\* dateColumns.slice().reverse().find(date => cleanCurrencyString(customer[date]) > 0)
LastRevenueDate(customer, dateColumns) ==
    LastOf(dateColumns, RevenuePositions(customer, dateColumns))

LastMonth(dateColumns) == JsAt(dateColumns, Len(dateColumns) - 1)

\* LastQuarterMonth counted from the end itself: two months before the last.
LastQuarterMonthAtThird(dateColumns) ==
    IF JsAt(dateColumns, Len(dateColumns) - 3) # <<>>
    THEN JsAt(dateColumns, Len(dateColumns) - 3)
    ELSE LastMonth(dateColumns)

\* dateColumns[dateColumns.length - 4] || lastMonth
LastQuarterMonth(dateColumns) ==
    IF JsAt(dateColumns, Len(dateColumns) - 4) # <<>>
    THEN JsAt(dateColumns, Len(dateColumns) - 4)
    ELSE LastMonth(dateColumns)

\* lastQuarterMrr ? ((currentMrr - lastQuarterMrr) / lastQuarterMrr) * 100 : 0
QuarterlyChange(currentMrr, lastQuarterMrr) ==
    IF lastQuarterMrr # Zero THEN Percent(RSub(currentMrr, lastQuarterMrr), lastQuarterMrr)
    ELSE Zero

StartDate(first) == IF first # <<>> THEN MonthText(first[1]) ELSE NotAvailable

\* EndDate without the test for a customer that is still active.
EndDateOfAnyCustomer(currentMrr, last) ==
    IF last # <<>> THEN MonthText(last[1]) ELSE NotAvailable

EndDate(currentMrr, last) ==
    IF RGt(currentMrr, Zero) THEN StillActive
    ELSE IF last # <<>> THEN MonthText(last[1]) ELSE NotAvailable

\* dateColumns.reduce((sum, date) => sum + cleanCurrencyString(customer[date] || '0'), 0)
Ltv(customer, dateColumns) ==
    SumRat([i \in 1..Len(dateColumns) |->
        cleanCurrencyString(OrElse(Lookup(customer, <<dateColumns[i]>>), StringValue(<<"0">>)))])

SummaryOf(customer, dateColumns, currentMrr, lastQuarterMrr) ==
    [ id |-> customer.Customer,
      customer |-> customer.Customer,
      startDate |-> StartDate(FirstRevenueDate(customer, dateColumns)),
      endDate |-> EndDate(currentMrr, LastRevenueDate(customer, dateColumns)),
      currentMrr |-> currentMrr,
      lastQuarterMrr |-> lastQuarterMrr,
      arr |-> RMul(currentMrr, RInt(12)),
      quarterlyChange |-> QuarterlyChange(currentMrr, lastQuarterMrr),
      status |-> IF RGt(currentMrr, Zero) THEN "Active" ELSE "Churned",
      ltv |-> Ltv(customer, dateColumns) ]

Summary(customer, dateColumns) ==
    SummaryOf(customer, dateColumns,
              Revenue(customer, LastMonth(dateColumns)),
              Revenue(customer, LastQuarterMonth(dateColumns)))

Summaries(customers, dateColumns) ==
    [c \in 1..Len(customers) |-> Summary(customers[c], dateColumns)]

(***************************************************************************)
(* calculateCohortData.                                                    *)
(***************************************************************************)
\* `${year}-${String(month).padStart(2, '0')}` of the first revenue date.
CohortKeyFrom(firstRevenueDate) ==
    IF firstRevenueDate = <<>> THEN <<>>
    ELSE <<FormatKey(KeyYear(firstRevenueDate[1]), KeyMonth(firstRevenueDate[1]))>>

\* CohortKeyOf by the last month with revenue instead of the first.
CohortKeyOfLastRevenue(customer, dateColumns) ==
    CohortKeyFrom(LastRevenueDate(customer, dateColumns))

\* The cohort key of a customer: <<key>>, or <<>> for a customer that never
\* had revenue (the reducer returns the groups unchanged).
CohortKeyOf(customer, dateColumns) ==
    CohortKeyFrom(FirstRevenueDate(customer, dateColumns))

AddCohortKey(keys, key) ==
    IF key = <<>> \/ \E i \in 1..Len(keys) : keys[i] = key[1]
    THEN keys
    ELSE Append(keys, key[1])

\* The keys of cohortGroups in insertion order (Object.entries).
RECURSIVE CohortKeys(_, _)
CohortKeys(data, dateColumns) ==
    IF data = <<>> THEN <<>>
    ELSE AddCohortKey(CohortKeys(SubSeq(data, 1, Len(data) - 1), dateColumns),
                      CohortKeyOf(data[Len(data)], dateColumns))

\* groups[cohort], in the order the customers were pushed.
RECURSIVE CohortMembers(_, _, _)
CohortMembers(data, dateColumns, cohort) ==
    IF data = <<>> THEN <<>>
    ELSE (IF CohortKeyOf(Head(data), dateColumns) = <<cohort>> THEN <<Head(data)>> ELSE <<>>)
             \o CohortMembers(Tail(data), dateColumns, cohort)

\* PeriodKey with the month taken as 0-based: one month late.
PeriodKeyOneMonthLate(cohortYear, cohortMonth, index) ==
    FormatKey(cohortYear + ((cohortMonth + index) \div 12), ((cohortMonth + index) % 12) + 1)

\* new Date(cohortYear, cohortMonth - 1 + index), formatted back to a key:
\* the Date constructor carries months past December into the year.
PeriodKey(cohortYear, cohortMonth, index) ==
    FormatKey(cohortYear + ((cohortMonth - 1 + index) \div 12),
              ((cohortMonth - 1 + index) % 12) + 1)

\* cleanCurrencyString(customer[periodKey] || 0)
PeriodRevenue(customer, periodKey) ==
    cleanCurrencyString(OrElse(Lookup(customer, <<periodKey>>), NumberValue(Zero)))

PeriodRecord(activeCustomers, periodRevenue, size, initialRevenue, index) ==
    [ retained |-> activeCustomers,
      revenue |-> periodRevenue,
      retentionRate |-> Percent(RInt(activeCustomers), RInt(size)),
      revenueRate |->
          IF index = 0 THEN RInt(100)
          ELSE IF RGt(initialRevenue, Zero) THEN Percent(periodRevenue, initialRevenue)
          ELSE Zero ]

\* CohortPeriod counting every member as retained.
CohortPeriodRetainingAll(members, periodKey, initialRevenue, index) ==
    PeriodRecord(
        Len(members),
        SumRat([c \in 1..Len(members) |-> PeriodRevenue(members[c], periodKey)]),
        Len(members), initialRevenue, index)

CohortPeriod(members, periodKey, initialRevenue, index) ==
    PeriodRecord(
        Cardinality({c \in 1..Len(members) : RGt(PeriodRevenue(members[c], periodKey), Zero)}),
        SumRat([c \in 1..Len(members) |-> PeriodRevenue(members[c], periodKey)]),
        Len(members), initialRevenue, index)

MonthsDiff(latest, cohort) ==
    (KeyYear(latest) - KeyYear(cohort)) * 12 + (KeyMonth(latest) - KeyMonth(cohort))

CohortPeriods(members, cohort, initialRevenue, monthsDiff) ==
    [p \in 1..(monthsDiff + 1) |->
        CohortPeriod(members, PeriodKey(KeyYear(cohort), KeyMonth(cohort), p - 1),
                     initialRevenue, p - 1)]

\* IsFutureCohort taking the latest month itself for a future one.
IsFutureCohortOrLatest(latest, cohort) ==
    \/ KeyYear(cohort) > KeyYear(latest)
    \/ KeyYear(cohort) = KeyYear(latest) /\ KeyMonth(cohort) >= KeyMonth(latest)

\* cohortYear > latestYear || (cohortYear === latestYear && cohortMonth > latestMonth)
IsFutureCohort(latest, cohort) ==
    \/ KeyYear(cohort) > KeyYear(latest)
    \/ KeyYear(cohort) = KeyYear(latest) /\ KeyMonth(cohort) > KeyMonth(latest)

CohortOf(members, latestAvailableDate, cohort, initialRevenue) ==
    IF IsFutureCohort(latestAvailableDate, cohort)
    THEN [ cohort |-> cohort,
           initialCustomers |-> Len(members),
           initialRevenue |-> Zero,
           periods |-> <<>> ]
    ELSE [ cohort |-> cohort,
           initialCustomers |-> Len(members),
           initialRevenue |-> initialRevenue,
           periods |-> CohortPeriods(members, cohort, initialRevenue,
                                     MonthsDiff(latestAvailableDate, cohort)) ]

\* CohortFrom with the initial revenue of the first member alone.
CohortFromFirstMember(members, latestAvailableDate, cohort) ==
    CohortOf(members, latestAvailableDate, cohort, Revenue(members[1], <<cohort>>))

CohortFrom(members, latestAvailableDate, cohort) ==
    CohortOf(members, latestAvailableDate, cohort, TotalRevenue(members, <<cohort>>))

Cohort(data, dateColumns, cohort) ==
    CohortFrom(CohortMembers(data, dateColumns, cohort), dateColumns[Len(dateColumns)], cohort)

\* latestAvailableDate.split('-') is a TypeError when dateColumns is empty.
CohortDataThrows(dateColumns) == dateColumns = <<>>

CohortsOf(data, dateColumns, keys) ==
    [i \in 1..Len(keys) |-> Cohort(data, dateColumns, keys[i])]

calculateCohortData(data, dateColumns) ==
    CohortsOf(data, dateColumns, CohortKeys(data, dateColumns))

(***************************************************************************)
(* The files the user may select, and their parse.                         *)
(* A file has month columns and rows; a cell holds an integer or nothing.  *)
(* The parser (XLSX sheet_to_json with raw: false, Papa.parse with header) *)
(* delivers every cell as text; a worksheet cell that holds nothing, like  *)
(* a field missing from a short CSV line, is left out of its row.          *)
(* The enumerated files have a prefix of Months as their columns, a prefix *)
(* of CustomerNames as their rows, and at most MaxEdits edits away from    *)
(* ordinary names and cells of zero: a cell edited to 1, to -1 or to       *)
(* nothing, a name edited to one the filter drops.                         *)
(***************************************************************************)
NumberCell(v) == [kind |-> "number", n |-> v]
BlankCell == [kind |-> "blank", n |-> 0]

CustomerNames == <<"A", "B">>
DroppedNames == {<<"T", "o", "t", "a", "l", "s">>, <<" ">>}

Months == <<FormatKey(2023, 12), FormatKey(2024, 1), FormatKey(2024, 2), FormatKey(2024, 3)>>
Headers == {{Months[i] : i \in 1..len} : len \in 0..Len(Months)}

DigitChars == <<"0", "1", "2", "3", "4", "5", "6", "7", "8", "9">>

RECURSIVE NatText(_)
NatText(v) ==
    IF v < 10 THEN <<DigitChars[v + 1]>>
    ELSE NatText(v \div 10) \o <<DigitChars[(v % 10) + 1]>>

\* The text the parser delivers for a cell.
CellText(cell) ==
    IF cell.n < 0 THEN <<"-">> \o NatText(-cell.n) ELSE NatText(cell.n)

ParseRow(row) ==
    [ Customer |-> row.Customer,
      cells |-> [k \in {k \in DOMAIN row.cells : row.cells[k].kind # "blank"} |->
                    CellText(row.cells[k])] ]

ParseFile(file) == [r \in 1..Len(file) |-> ParseRow(file[r])]

EditedCells == {NumberCell(1), NumberCell(-1), BlankCell}

CellEdits(cell) == IF cell \in EditedCells THEN 1 ELSE 0

CellChoices(budget) ==
    {NumberCell(0)} \cup (IF budget >= 1 THEN EditedCells ELSE {})

NameChoices(r, budget) ==
    {[name |-> <<CustomerNames[r]>>, edits |-> 0]}
        \cup (IF budget >= 1 THEN {[name |-> n, edits |-> 1] : n \in DroppedNames} ELSE {})

\* The ways to fill the cells of one row over months within the budget.
RECURSIVE CellFills(_, _)
CellFills(months, budget) ==
    IF months = {} THEN {[cells |-> <<>>, edits |-> 0]}
    ELSE UNION { { [ cells |-> (Greatest(months) :> cell) @@ rest.cells,
                     edits |-> rest.edits + CellEdits(cell) ] :
                   rest \in CellFills(months \ {Greatest(months)}, budget - CellEdits(cell)) } :
                 cell \in CellChoices(budget) }

\* The fills of every header within every budget.
FillTable == [h \in Headers |-> [budget \in 0..MaxEdits |-> CellFills(h, budget)]]

(***************************************************************************)
(* The cell values handed to the normalizer.                               *)
(***************************************************************************)
Alphabet == {"0", "1", "5", "-", "+", "$", ",", ".", " ", "N", "/", "A", "x"}

RECURSIVE StringsUpTo(_)
StringsUpTo(k) ==
    IF k = 0 THEN {<<>>}
    ELSE LET shorter == StringsUpTo(k - 1)
         IN  shorter \cup {<<c>> \o str : c \in Alphabet, str \in {x \in shorter : Len(x) = k - 1}}

\* The strings the specification's examples name.
ExampleStrings ==
    { <<"$", "1", ",", "2", "3", "4", ".", "5", "0">>,
      <<"$", "-", "5">>,
      <<"1", "0", "0", "U", "S", "D">>,
      <<"2", "0", "2", "4", "-", "0", "1", "-", "1", "5">> }

NumberInputs == {RInt(500), RInt(0), RInt(-5), Rat(1, 2)}

RawValues ==
    {StringValue(str) : str \in StringsUpTo(MaxLen) \cup ExampleStrings}
        \cup {NumberValue(r) : r \in NumberInputs}
        \cup {Undefined, Null}

(***************************************************************************)
(* The normalizer applied to one cell.                                     *)
(***************************************************************************)
NoStoredData ==
    /\ customerData = <<>>
    /\ metrics = <<>>
    /\ customerSummaries = <<>>
    /\ filteredCustomers = <<>>
    /\ cohortData = <<>>

\* localStorage with none of the four keys.
NoItems ==
    [ customerData |-> <<>>, metrics |-> <<>>,
      customerSummaries |-> <<>>, cohortData |-> <<>> ]

InitNormalizer ==
    /\ rawValue \in RawValues
    /\ amount = <<>>
    /\ pending = <<>>
    /\ NoStoredData
    /\ raised = FALSE
    /\ storage = NoItems
    /\ renderRaised = FALSE
    /\ selected = <<>>

CleanCell ==
    /\ amount = <<>>
    /\ amount' = <<cleanCurrencyString(rawValue)>>
    /\ UNCHANGED <<rawValue, pending, customerData, metrics,
                   customerSummaries, filteredCustomers, cohortData, raised,
                   storage, renderRaised, selected>>

NextNormalizer == CleanCell

SpecNormalizer == InitNormalizer /\ [][NextNormalizer]_vars

(***************************************************************************)
(* Persistence and render.  The text JSON.stringify writes is represented  *)
(* by the value JSON.parse reads back from it: every number of the model   *)
(* is finite and no field holds undefined, so the stored arrays come back  *)
(* field for field.  The setters of one callback are applied in one render *)
(* (automatic batching); a render that raises commits nothing, runs no     *)
(* effect and unmounts the application.                                    *)
(***************************************************************************)
JSONstringify(value) == [json |-> value]
JSONparse(text) == text.json

\* const saved = localStorage.getItem(key); return saved ? JSON.parse(saved) : []
LoadItem(item) == IF item # <<>> THEN JSONparse(item[1]) ELSE <<>>

\* useEffect(() => { if (value.length > 0) localStorage.setItem(key, JSON.stringify(value)) }, [value])
SetItem(item, changed, value) ==
    IF changed /\ value # <<>> THEN <<JSONstringify(value)>> ELSE item

\* metrics.length > 0 && ... metrics[metrics.length - 2].mrr: a TypeError
\* when the series has no entry before the last.
KeyMetricsThrows(m) == m # <<>> /\ JsAt(m, Len(m) - 2) = <<>>

\* The persistence effects of a committed render, for the arrays whose
\* setter ran.
Effects(changedData, changedResults, changedCohorts) ==
    storage' =
        [ customerData |-> SetItem(storage.customerData, changedData, customerData'),
          metrics |-> SetItem(storage.metrics, changedResults, metrics'),
          customerSummaries |->
              SetItem(storage.customerSummaries, changedResults, customerSummaries'),
          cohortData |-> SetItem(storage.cohortData, changedCohorts, cohortData') ]

\* The render after a callback's setters, and its effects.
Render(changedData, changedResults, changedCohorts) ==
    /\ renderRaised' = KeyMetricsThrows(metrics')
    /\ IF KeyMetricsThrows(metrics')
       THEN UNCHANGED storage
       ELSE Effects(changedData, changedResults, changedCohorts)

(***************************************************************************)
(* The application: the user selects a file and the parser's completion    *)
(* callback runs the engine on its rows.                                   *)
(***************************************************************************)
Init ==
    /\ rawValue = Undefined
    /\ amount = <<>>
    /\ pending = <<>>
    /\ NoStoredData
    /\ raised = FALSE
    /\ storage = NoItems
    /\ renderRaised = FALSE
    /\ selected = <<>>

\* The dashboard below the upload button: metrics.length > 0 && (...)
Shown == renderRaised = FALSE /\ metrics # <<>>

\* clearStoredData: the four keys are removed and the five state arrays
\* are emptied.
clearStoredData ==
    /\ storage' = NoItems
    /\ customerData' = <<>>
    /\ metrics' = <<>>
    /\ customerSummaries' = <<>>
    /\ filteredCustomers' = <<>>
    /\ cohortData' = <<>>

\* The Clear Data button, shown with the dashboard.
ClearData ==
    /\ Shown
    /\ clearStoredData
    /\ raised' = FALSE
    /\ renderRaised' = FALSE
    /\ UNCHANGED <<rawValue, amount, pending, selected>>

\* The file input holds the file and its parse is in flight.
StartParse(rows) ==
    /\ pending' = Append(pending, rows)
    /\ selected' = <<rows>>

\* handleFileUpload: the stored data is cleared and the parse of the
\* selected file starts.  Under Spec one file is selected, while nothing
\* is stored and no parse is in flight; selecting it over stored data leads
\* to the same arrays, since the handler clears first.
RECURSIVE SelectFile(_, _, _, _)
SelectFile(file, n, h, budget) ==
    \/ StartParse(ParseFile(file))
    \/ /\ n <= Len(CustomerNames)
       /\ \E nm \in NameChoices(n, budget) :
            \E fill \in FillTable[h][budget - nm.edits] :
                SelectFile(Append(file, [Customer |-> nm.name, cells |-> fill.cells]),
                           n + 1, h, budget - nm.edits - fill.edits)

handleFileUpload ==
    /\ pending = <<>>
    /\ selected = <<>>
    /\ NoStoredData
    /\ renderRaised = FALSE
    /\ \E h \in Headers : SelectFile(<<>>, 1, h, MaxEdits)
    /\ clearStoredData
    /\ raised' = FALSE
    /\ renderRaised' = FALSE
    /\ UNCHANGED <<rawValue, amount>>

\* calculateMetrics past its filter and the date columns: the setters, and
\* the TypeError of calculateCohortData that ends the callback before
\* setCohortData.
StoreResults(data, customers, dateColumns) ==
    /\ metrics' = WithQuarterly(customers, dateColumns)
    /\ customerSummaries' = Summaries(customers, dateColumns)
    /\ filteredCustomers' = Summaries(customers, dateColumns)
    /\ IF CohortDataThrows(dateColumns)
       THEN raised' = TRUE /\ UNCHANGED cohortData
       ELSE raised' = FALSE /\ cohortData' = calculateCohortData(data, dateColumns)

Calculate(data, customers) == StoreResults(data, customers, DateColumnsOf(customers))

\* if (!data.length) return;
calculateMetrics(data) ==
    IF data = <<>>
    THEN raised' = FALSE
         /\ UNCHANGED <<metrics, customerSummaries, filteredCustomers, cohortData>>
    ELSE Calculate(data, FilterRows(data))

\* Complete storing the rows with the sign of every amount removed.
CompleteUnsigned(data) ==
    /\ customerData' =
          [r \in 1..Len(data) |->
              [data[r] EXCEPT !.cells =
                  [k \in DOMAIN data[r].cells |->
                      SelectSeq(data[r].cells[k], LAMBDA c : c # "-")]]]
    /\ calculateMetrics(data)
    /\ Render(TRUE, data # <<>>, data # <<>> /\ ~raised')

\* The rows are filtered, stored, and calculateMetrics runs on them; then
\* the application renders.
Complete(data) ==
    /\ customerData' = data
    /\ calculateMetrics(data)
    /\ Render(TRUE, data # <<>>, data # <<>> /\ ~raised')

\* The sequence without its i-th element.
Remove(seq, i) == SubSeq(seq, 1, i - 1) \o SubSeq(seq, i + 1, Len(seq))

\* The completion callback of the i-th parse in flight (Papa.parse
\* complete, FileReader onload).  Once the application is unmounted its
\* setters do nothing.
CompleteParse(i) ==
    /\ pending' = Remove(pending, i)
    /\ IF renderRaised
       THEN UNCHANGED <<customerData, metrics, customerSummaries, filteredCustomers,
                        cohortData, raised, storage, renderRaised>>
       ELSE Complete(FilterRows(pending[i]))
    /\ UNCHANGED <<rawValue, amount, selected>>

\* The parses in flight complete in any order.
ParseComplete == \E i \in 1..Len(pending) : CompleteParse(i)

Next ==
    \/ handleFileUpload
    \/ ParseComplete
    \/ ClearData

Spec == Init /\ [][Next]_vars

(***************************************************************************)
(* The dashboard: the search box, the Clear Filter button and the rows of  *)
(* the cohort grid, rendered while metrics is not empty.                   *)
(***************************************************************************)
\* String.prototype.toLowerCase on the letters of the modelled names.
toLowerCase(str) ==
    [i \in 1..Len(str) |->
        IF str[i] = "A" THEN "a" ELSE IF str[i] = "B" THEN "b" ELSE str[i]]

\* String.prototype.includes
includes(str, sub) ==
    \E i \in 0..(Len(str) - Len(sub)) : SubSeq(str, i + 1, i + Len(sub)) = sub

SearchTexts == {<<>>, <<"a">>, <<"B">>}

\* The search box's onChange.
Search ==
    /\ Shown
    /\ \E value \in SearchTexts :
          filteredCustomers' =
              IF value # <<>>
              THEN SelectSeq(customerSummaries,
                       LAMBDA summary :
                           includes(toLowerCase(summary.customer), toLowerCase(value)))
              ELSE customerSummaries
    /\ raised' = FALSE
    /\ UNCHANGED <<rawValue, amount, pending, customerData, metrics, customerSummaries,
                   cohortData, storage, renderRaised, selected>>

\* The Clear Filter button, shown while the two lengths differ.
ClearFilter ==
    /\ Shown
    /\ Len(filteredCustomers) # Len(customerSummaries)
    /\ filteredCustomers' = customerSummaries
    /\ raised' = FALSE
    /\ UNCHANGED <<rawValue, amount, pending, customerData, metrics, customerSummaries,
                   cohortData, storage, renderRaised, selected>>

\* customerData.find(c => c.Customer === name): <<row>> or <<>>.
FindCustomer(name) ==
    IF \E r \in 1..Len(customerData) : customerData[r].Customer = name
    THEN <<customerData[Least({r \in 1..Len(customerData) : customerData[r].Customer = name})]>>
    ELSE <<>>

\* cleanCurrencyString(customerData.find(...)?.[date] || 0)
ClickRevenue(found, date) ==
    cleanCurrencyString(
        OrElse(IF found # <<>> THEN Lookup(found[1], <<date>>) ELSE Undefined,
               NumberValue(Zero)))

\* Object.keys(customerData[0]).filter(key => /^\d{4}-\d{2}$/.test(key)); the
\* columns of the modelled files stand in ascending order.
MonthKeysOfFirstRow == DateColumnsOf(customerData)

\* .find(date => ... > 0): <<date>> or <<>>.
FirstRevenueMonth(name) ==
    FirstOf(MonthKeysOfFirstRow,
            {i \in 1..Len(MonthKeysOfFirstRow) :
                RGt(ClickRevenue(FindCustomer(name), MonthKeysOfFirstRow[i]), Zero)})

\* handleCohortClick.  Object.keys(customerData[0]) is a TypeError when a
\* summary is tested while customerData is empty.
handleCohortClick(cohortDate) ==
    IF KeyYear(cohortDate) = 0 \/ KeyMonth(cohortDate) = 0
    THEN raised' = FALSE /\ UNCHANGED filteredCustomers
    ELSE IF customerSummaries # <<>> /\ customerData = <<>>
    THEN raised' = TRUE /\ UNCHANGED filteredCustomers
    ELSE /\ raised' = FALSE
         /\ filteredCustomers' =
                SelectSeq(customerSummaries,
                    LAMBDA customer :
                        FirstRevenueMonth(customer.customer)
                            = <<FormatKey(KeyYear(cohortDate), KeyMonth(cohortDate))>>)

\* A click on a row of the cohort grid.
CohortClick ==
    /\ Shown
    /\ \E i \in 1..Len(cohortData) : handleCohortClick(cohortData[i].cohort)
    /\ UNCHANGED <<rawValue, amount, pending, customerData, metrics, customerSummaries,
                   cohortData, storage, renderRaised, selected>>

\* The page is loaded again: the state initialisers read localStorage, the
\* parses in flight and the file input's file are gone, and every effect
\* runs on mount.
Reload ==
    /\ customerData' = LoadItem(storage.customerData)
    /\ metrics' = LoadItem(storage.metrics)
    /\ customerSummaries' = LoadItem(storage.customerSummaries)
    /\ filteredCustomers' = LoadItem(storage.customerSummaries)
    /\ cohortData' = LoadItem(storage.cohortData)
    /\ pending' = <<>>
    /\ selected' = <<>>
    /\ raised' = FALSE
    /\ Render(TRUE, TRUE, TRUE)
    /\ UNCHANGED <<rawValue, amount>>

(***************************************************************************)
(* The application with files selected while parses are in flight.  The    *)
(* files are a handful of examples: one with no row, one with no month     *)
(* column, one with a single month, and two with two customers over two    *)
(* months.                                                                 *)
(***************************************************************************)
MaxPending == 2     \* most parses in flight at once

ExampleRow(name, cells) == [Customer |-> <<name>>, cells |-> cells]

ExampleFiles ==
    { <<>>,
      << ExampleRow("A", <<>>) >>,
      << ExampleRow("A", Months[1] :> NumberCell(1)) >>,
      << ExampleRow("A", Months[1] :> NumberCell(1) @@ Months[2] :> NumberCell(1)),
         ExampleRow("B", Months[1] :> NumberCell(0) @@ Months[2] :> NumberCell(1)) >>,
      << ExampleRow("B", Months[1] :> NumberCell(1) @@ Months[2] :> NumberCell(0)) >> }

\* handleFileUpload at any time the upload button is rendered.
SelectExample ==
    /\ renderRaised = FALSE
    /\ Len(pending) < MaxPending
    /\ \E file \in ExampleFiles : StartParse(ParseFile(file))
    /\ clearStoredData
    /\ raised' = FALSE
    /\ renderRaised' = FALSE
    /\ UNCHANGED <<rawValue, amount>>

NextApp ==
    \/ SelectExample
    \/ ParseComplete
    \/ ClearData
    \/ Search
    \/ ClearFilter
    \/ CohortClick
    \/ Reload

SpecApp == Init /\ [][NextApp]_vars

(***************************************************************************)
(* What the claims about the normalizer speak of, stated without           *)
(* parseFloat: a decimal numeral, its value, and a cell that reads as a    *)
(* negative amount.                                                        *)
(***************************************************************************)
Significant(str) == SelectSeq(str, LAMBDA ch : ch \notin WhiteSpace \cup {"$", ","})

Unsigned(c) == IF c # <<>> /\ c[1] \in {"+", "-"} THEN Tail(c) ELSE c

\* c is, as a whole, a decimal numeral: an optional sign, digits with at most
\* one decimal point, at least one digit.
IsDecimal(c) ==
    LET b == Unsigned(c)
    IN  /\ \A i \in 1..Len(b) : b[i] \in Digits \cup {"."}
        /\ Cardinality({i \in 1..Len(b) : b[i] = "."}) <= 1
        /\ \E i \in 1..Len(b) : b[i] \in Digits

\* The value of a decimal numeral, digit by digit.
DecimalValue(c) ==
    LET b == Unsigned(c)
        dots == {i \in 1..Len(b) : b[i] = "."}
        p == IF dots = {} THEN Len(b) + 1 ELSE CHOOSE i \in dots : TRUE
        fracLen == IF dots = {} THEN 0 ELSE Len(b) - p
        weight(i) == IF i < p THEN Pow10(p - 1 - i + fracLen) ELSE Pow10(Len(b) - i)
        acc[i \in 0..Len(b)] ==
            IF i = 0 THEN 0
            ELSE acc[i - 1] + (IF i = p THEN 0 ELSE DigitVal(b[i]) * weight(i))
        mag == Rat(acc[Len(b)], Pow10(fracLen))
    IN  IF c # <<>> /\ c[1] = "-" THEN RSub(Zero, mag) ELSE mag

\* The value of the longest leading decimal numeral of c, 0 when c starts
\* with none.
LeadingDecimalValue(c) ==
    LET ks == {k \in 1..Len(c) : IsDecimal(SubSeq(c, 1, k))}
    IN  IF ks = {} THEN Zero
        ELSE DecimalValue(SubSeq(c, 1, CHOOSE k \in ks : \A j \in ks : j <= k))

Sentinels == {<<"-">>, <<"$", "-">>, <<"N", "/", "A">>}

\* The cell reads as a negative amount: a negative number, or a string whose
\* significant characters are a minus sign and a numeral with a nonzero digit.
NegativeInput(value) ==
    \/ value.t = "number" /\ value.v.n < 0
    \/ /\ value.t = "string"
       /\ LET c == Significant(value.s)
          IN  /\ Len(c) >= 2
              /\ c[1] = "-"
              /\ \E k \in 2..Len(c) :
                    /\ c[k] \in Digits \ {"0"}
                    /\ \A j \in 2..k : c[j] \in Digits \cup {"."}
                    /\ Cardinality({j \in 2..k : c[j] = "."}) <= 1

Cleaned == amount # <<>>

NormalizerRules(other(_)) ==
    Cleaned =>
        /\ rawValue.t = "number" => amount[1] = rawValue.v
        /\ rawValue.t \in {"undefined", "null"} => amount[1] = Zero
        /\ rawValue.t = "string" /\ rawValue.s = <<>> => amount[1] = Zero
        /\ rawValue.t = "string" /\ Trim(rawValue.s) \in Sentinels => amount[1] = Zero
        /\ rawValue.t = "string" /\ rawValue.s # <<>> /\ Trim(rawValue.s) \notin Sentinels
              => amount[1] = other(Significant(rawValue.s))

AmountAt(c, m) == cleanCurrencyString(Lookup(customerData[c], <<m>>))

Customers == 1..Len(customerData)

\* The sum of the amounts at month m of the customers in members.
SumAt(members, m) ==
    SumRat([c \in Customers |-> IF c \in members THEN AmountAt(c, m) ELSE Zero])

\* The customers with an amount > 0 at month m.
ActiveAt(m) == {c \in Customers : RGt(AmountAt(c, m), Zero)}

MonthAt(i) == metrics[i + 1].date
\* The period indices i >= 1.
Later == 1..(Len(metrics) - 1)

\* C3: every month of the first stored row's columns has a metric, in
\* ascending order; its mrr is the sum of the normalized amounts of all
\* stored customers at that month and its arr is 12 times its mrr; no stored
\* customer is named Totals or has an empty or blank name.
C3_MrrIsSumOfAmounts ==
    /\ \A c \in Customers :
          /\ customerData[c].Customer # <<"T", "o", "t", "a", "l", "s">>
          /\ \E p \in 1..Len(customerData[c].Customer) :
                customerData[c].Customer[p] # " "
    /\ metrics # <<>> =>
          /\ {metrics[i].date : i \in 1..Len(metrics)} = DOMAIN customerData[1].cells
          /\ \A i \in 1..(Len(metrics) - 1) : metrics[i].date < metrics[i + 1].date
    /\ \A i \in 1..Len(metrics) :
          /\ metrics[i].mrr = SumAt(Customers, metrics[i].date)
          /\ metrics[i].arr = RMul(RInt(12), metrics[i].mrr)

\* Two customers with an amount in the same month.
C3_Witness ==
    /\ Len(customerData) = 2
    /\ \E i \in 1..Len(metrics) :
          /\ AmountAt(1, metrics[i].date) = RInt(1)
          /\ AmountAt(2, metrics[i].date) = RInt(1)
          /\ metrics[i].mrr = RInt(2)
          /\ metrics[i].arr = RInt(24)

\* The retention the claims define for period index i >= 1: the amounts at
\* month i of the customers active at month i - 1, over their amounts at
\* month i - 1, in percent; 100 when the latter sum is zero.
ReferenceCohort(i) == ActiveAt(MonthAt(i - 1))
RetainedRevenue(i) == SumAt(ReferenceCohort(i), MonthAt(i))
ReferenceRevenue(i) == SumAt(ReferenceCohort(i), MonthAt(i - 1))
Retention(i) ==
    IF ReferenceRevenue(i) = Zero THEN RInt(100)
    ELSE RMul(RDiv(RetainedRevenue(i), ReferenceRevenue(i)), RInt(100))

\* C4: for every period index i >= 1, nrr(i) is the sum of the amounts at i
\* of the customers with an amount > 0 at i - 1, over the sum of their
\* amounts at i - 1, times 100, and 100 when that reference sum is 0.
C4_NrrOverReferenceCohort ==
    \A i \in Later : metrics[i + 1].nrr = Retention(i)

\* A reference customer keeps its amount while a new customer arrives.
C4_Witness ==
    \E i \in Later :
        /\ Len(customerData) = 2
        /\ ReferenceCohort(i) = {1}
        /\ AmountAt(1, MonthAt(i)) = RInt(1)
        /\ AmountAt(2, MonthAt(i)) = RInt(1)
        /\ metrics[i + 1].nrr = RInt(100)

\* C5 as stated: for every period index i >= 1, nrr(i) is never negative, and
\* it is 100 whenever the reference cohort has no revenue.
C5_NrrNeverNegative ==
    \A i \in Later :
        /\ RGe(metrics[i + 1].nrr, Zero)
        /\ ReferenceRevenue(i) = Zero => metrics[i + 1].nrr = RInt(100)

\* C5: for every period index i >= 1, nrr(i) is 100 whenever the reference
\* cohort has no revenue, and it is negative exactly when the amounts at i of
\* the reference customers sum to a negative number.
C5_NrrNegativeOnlyByNegativeAmounts ==
    \A i \in Later :
        /\ ReferenceRevenue(i) = Zero => metrics[i + 1].nrr = RInt(100)
        /\ RGe(metrics[i + 1].nrr, Zero) <=> RGe(RetainedRevenue(i), Zero)

\* An empty reference cohort, then a reference customer that stays.
C5_Witness ==
    /\ Len(metrics) >= 3
    /\ ReferenceCohort(1) = {}
    /\ metrics[2].nrr = RInt(100)
    /\ ReferenceCohort(2) # {}
    /\ RGt(metrics[3].nrr, Zero)

\* A metric field that holds a number.
IsNumber(x) == DOMAIN x = {"n", "d"}

Expansion(c, i) ==
    IF RGt(AmountAt(c, MonthAt(i)), AmountAt(c, MonthAt(i - 1)))
    THEN RSub(AmountAt(c, MonthAt(i)), AmountAt(c, MonthAt(i - 1)))
    ELSE Zero

\* C7: for every period index i >= 1, netNewRevenue(i) is 12 times the sum
\* over all customers of max(0, amount at i - amount at i - 1).
C7_NetNewIsPositiveDeltas ==
    \A i \in Later :
        metrics[i + 1].netNewRevenue =
            RMul(RInt(12), SumRat([c \in Customers |-> Expansion(c, i)]))

\* One customer leaves as another arrives: the revenue is unchanged and the
\* net new revenue is the arrival's.
C7_Witness ==
    \E i \in Later :
        /\ Len(customerData) = 2
        /\ AmountAt(1, MonthAt(i - 1)) = RInt(1)
        /\ AmountAt(1, MonthAt(i)) = Zero
        /\ AmountAt(2, MonthAt(i - 1)) = Zero
        /\ AmountAt(2, MonthAt(i)) = RInt(1)
        /\ metrics[i + 1].netNewRevenue = RInt(12)

\* 12 times the sum of the amounts at period index i.
PeriodArr(i) == RMul(RInt(12), SumAt(Customers, MonthAt(i)))

\* C8: for every period index i >= 3, growthRate(i) is (arr(i) - prevArr) /
\* prevArr * 100, where prevArr is 12 times the sum of the amounts at period
\* index i - 3, and 0 when prevArr is 0.
C8_GrowthOverThreePeriods ==
    \A i \in Later : i >= 3 =>
        metrics[i + 1].growthRate =
            IF PeriodArr(i - 3) = Zero THEN Zero
            ELSE RMul(RDiv(RSub(metrics[i + 1].arr, PeriodArr(i - 3)), PeriodArr(i - 3)),
                      RInt(100))

\* The revenue doubles over three periods and is absent in between.
C8_Witness ==
    /\ Len(metrics) = 4
    /\ metrics[1].mrr = RInt(1)
    /\ metrics[2].mrr = Zero
    /\ metrics[3].mrr = Zero
    /\ metrics[4].mrr = RInt(2)
    /\ metrics[4].growthRate = RInt(100)

\* C9: for every month, activeCustomers is the number of customers with an
\* amount > 0 at that month, and acv is arr over activeCustomers, or 0 when
\* activeCustomers is 0.
C9_ActiveCustomersAndAcv ==
    \A i \in 1..Len(metrics) :
        /\ metrics[i].activeCustomers = Cardinality(ActiveAt(metrics[i].date))
        /\ metrics[i].acv =
              IF metrics[i].activeCustomers = 0 THEN Zero
              ELSE RDiv(metrics[i].arr, RInt(metrics[i].activeCustomers))

\* A month with one active customer and one customer of negative amount, and
\* a month with no active customer.
C9_Witness ==
    /\ \E i \in 1..Len(metrics) :
          /\ metrics[i].activeCustomers = 1
          /\ metrics[i].mrr = Zero
          /\ metrics[i].acv = Zero
    /\ \E i \in 1..Len(metrics) :
          /\ metrics[i].activeCustomers = 0
          /\ metrics[i].acv = Zero

\* C10: a metric carries the quarterly fields if and only if its month of
\* the year is 3, 6, 9 or 12, and where it does, quarterlyMrr, quarterlyArr,
\* quarterlyAcv and quarterlyActiveCustomers are that metric's own mrr, arr,
\* acv and activeCustomers.
C10_QuarterlyOnQuarterEnds ==
    \A i \in 1..Len(metrics) :
        /\ metrics[i].quarterly # <<>> <=> KeyMonth(metrics[i].date) \in {3, 6, 9, 12}
        /\ metrics[i].quarterly # <<>> =>
              /\ metrics[i].quarterly[1].quarterlyMrr = metrics[i].mrr
              /\ metrics[i].quarterly[1].quarterlyArr = metrics[i].arr
              /\ metrics[i].quarterly[1].quarterlyAcv = metrics[i].acv
              /\ metrics[i].quarterly[1].quarterlyActiveCustomers = metrics[i].activeCustomers

\* December and March carry the fields, January and February do not, and
\* the revenue of the months of the quarter differs.
C10_Witness ==
    /\ Len(metrics) = 4
    /\ metrics[1].quarterly # <<>>
    /\ metrics[2].quarterly = <<>>
    /\ metrics[3].quarterly = <<>>
    /\ metrics[4].quarterly # <<>>
    /\ metrics[2].mrr = RInt(1)
    /\ metrics[3].mrr = RInt(1)
    /\ metrics[4].mrr = RInt(1)
    /\ metrics[4].quarterly[1].quarterlyMrr = RInt(1)
    /\ metrics[4].quarterly[1].quarterlyActiveCustomers = 1

(***************************************************************************)
(* What the claims about the quarterly rollup speak of.  The axis of these *)
(* claims is the sequence of the dates of metrics; axis index i is         *)
(* position i + 1.                                                         *)
(***************************************************************************)
\* The positions of the metrics that carry the quarterly fields.
QuarterEnds == {i \in 1..Len(metrics) : metrics[i].quarterly # <<>>}

\* The mrr three positions before position i, or 0 if there is none.
MrrThreeBack(i) == IF i > 3 THEN metrics[i - 3].mrr ELSE Zero

\* (a - b) / b * 100, or 0 when b is 0.
ChangeInPercent(a, b) ==
    IF b = Zero THEN Zero ELSE RMul(RDiv(RSub(a, b), b), RInt(100))

\* C11 as stated: for every quarter-end metric, with the baseline the mrr of
\* the metric three positions earlier on the axis, or 0 if there is none,
\* quarterlyGrowth is (quarterlyMrr - baseline) / baseline * 100, or 0 when
\* the baseline is 0, and quarterlyNetNew is (quarterlyMrr - baseline) * 12.
C11_BaselineThreePositionsBack ==
    \A i \in QuarterEnds :
        /\ metrics[i].quarterly[1].quarterlyGrowth =
              ChangeInPercent(metrics[i].quarterly[1].quarterlyMrr, MrrThreeBack(i))
        /\ metrics[i].quarterly[1].quarterlyNetNew =
              RMul(RSub(metrics[i].quarterly[1].quarterlyMrr, MrrThreeBack(i)), RInt(12))

\* The retention of the customers active at month reference, at month m.
RetentionSince(reference, m) ==
    IF SumAt(ActiveAt(reference), reference) = Zero THEN RInt(100)
    ELSE RMul(RDiv(SumAt(ActiveAt(reference), m), SumAt(ActiveAt(reference), reference)),
              RInt(100))

\* C12 as stated: for every quarter-end metric, quarterlyNrr is the retention
\* of the customers with an amount > 0 at the month three positions earlier
\* on the axis, and 100 when their amounts there sum to 0 or there is no such
\* position.
C12_QuarterlyNrrThreePositionsBack ==
    \A i \in QuarterEnds :
        metrics[i].quarterly[1].quarterlyNrr =
            IF i > 3 THEN RetentionSince(metrics[i - 3].date, metrics[i].date)
            ELSE RInt(100)

(***************************************************************************)
(* What the claims about the customer summaries speak of.                  *)
(***************************************************************************)
\* The last month of the axis, and the month the last quarter is read at:
\* three entries before the last when the axis has four or more entries.
AxisLast == metrics[Len(metrics)].date
AxisLastQuarter ==
    IF Len(metrics) >= 4 THEN metrics[Len(metrics) - 3].date ELSE AxisLast

\* C13: there is one summary per stored customer, in order; its arr is 12
\* times its currentMrr and its quarterlyChange is (currentMrr -
\* lastQuarterMrr) / lastQuarterMrr * 100, or 0 when lastQuarterMrr is 0; and
\* when the axis is not empty its currentMrr is the customer's amount at the
\* last axis month and its lastQuarterMrr the amount three entries before
\* the last when the axis has four or more entries, else at the last month.
C13_SummaryAmounts ==
    /\ customerData # <<>> => Len(customerSummaries) = Len(customerData)
    /\ \A c \in 1..Len(customerSummaries) :
          /\ customerSummaries[c].customer = customerData[c].Customer
          /\ customerSummaries[c].arr = RMul(RInt(12), customerSummaries[c].currentMrr)
          /\ customerSummaries[c].quarterlyChange =
                ChangeInPercent(customerSummaries[c].currentMrr,
                                customerSummaries[c].lastQuarterMrr)
          /\ metrics # <<>> =>
                /\ customerSummaries[c].currentMrr = AmountAt(c, AxisLast)
                /\ customerSummaries[c].lastQuarterMrr = AmountAt(c, AxisLastQuarter)

\* Four months; a customer that paid 1 three months before the last, in no
\* other month before the last, and -1 in the last.
C13_Witness ==
    /\ Len(metrics) = 4
    /\ customerSummaries # <<>>
    /\ AmountAt(1, metrics[1].date) = RInt(1)
    /\ AmountAt(1, metrics[2].date) = Zero
    /\ AmountAt(1, metrics[3].date) = Zero
    /\ customerSummaries[1].lastQuarterMrr = RInt(1)
    /\ customerSummaries[1].currentMrr = RInt(-1)
    /\ customerSummaries[1].arr = RInt(-12)
    /\ customerSummaries[1].quarterlyChange = RInt(-200)

\* The axis positions where customer c has an amount > 0, and those where
\* it has an amount other than 0.
PaidPositions(c) == {i \in 1..Len(metrics) : RGt(AmountAt(c, metrics[i].date), Zero)}
NonzeroPositions(c) == {i \in 1..Len(metrics) : AmountAt(c, metrics[i].date) # Zero}

\* The axis month at the first, and at the last, of the positions, or "N/A".
FirstMonthOf(positions) ==
    IF positions = {} THEN NotAvailable
    ELSE MonthText(metrics[CHOOSE i \in positions : \A j \in positions : i <= j].date)
LastMonthOf(positions) ==
    IF positions = {} THEN NotAvailable
    ELSE MonthText(metrics[CHOOSE i \in positions : \A j \in positions : i >= j].date)

\* The rules of C14, with ended(c) the positions whose last is the endDate of
\* a churned customer c.
SummaryDates(ended(_)) ==
    \A c \in 1..Len(customerSummaries) :
        /\ customerSummaries[c].status \in {"Active", "Churned"}
        /\ customerSummaries[c].status = "Active" <=> RGt(customerSummaries[c].currentMrr, Zero)
        /\ customerSummaries[c].endDate = StillActive <=> customerSummaries[c].status = "Active"
        /\ customerSummaries[c].status = "Churned" =>
              customerSummaries[c].endDate = LastMonthOf(ended(c))
        /\ customerSummaries[c].startDate = FirstMonthOf(PaidPositions(c))
        /\ customerSummaries[c].status = "Churned" /\ ended(c) # {} =>
              /\ customerSummaries[c].startDate.text = "month"
              /\ customerSummaries[c].endDate.text = "month"
              /\ customerSummaries[c].startDate.key <= customerSummaries[c].endDate.key

\* C14 as stated: status is "Active" iff currentMrr > 0 and "Churned"
\* otherwise; endDate is "--" iff the customer is Active, otherwise the last
\* axis month with nonzero revenue, or "N/A"; startDate is the first axis
\* month with revenue > 0, or "N/A"; a churned customer with any nonzero
\* revenue has startDate <= endDate, both axis months.
C14_EndDateIsLastNonzeroMonth == SummaryDates(NonzeroPositions)

\* C14: as above with the endDate of a churned customer the last axis month
\* with revenue > 0, and startDate <= endDate, both axis months, for a
\* churned customer with any revenue > 0.
C14_EndDateIsLastPaidMonth == SummaryDates(PaidPositions)

\* A customer that paid 1, then -1, then nothing: churned, with both dates
\* the first month.
C14_Witness ==
    /\ Len(metrics) >= 3
    /\ customerSummaries # <<>>
    /\ AmountAt(1, metrics[1].date) = RInt(1)
    /\ AmountAt(1, metrics[2].date) = RInt(-1)
    /\ customerSummaries[1].status = "Churned"
    /\ customerSummaries[1].startDate = MonthText(metrics[1].date)
    /\ customerSummaries[1].endDate = MonthText(metrics[1].date)

(***************************************************************************)
(* What the claims about the cohorts speak of.                             *)
(***************************************************************************)
Cohorts == 1..Len(cohortData)

\* The first of a non-empty set of positions.
FirstPosition(positions) == CHOOSE i \in positions : \A j \in positions : i <= j

\* The rules of C15, with revenueAt(c) the axis positions where customer c
\* counts as having revenue: the customers with such a position are
\* partitioned into the cohorts by the month of their first such position.
CohortMembership(revenueAt(_)) ==
    /\ \A a \in Cohorts : \A b \in Cohorts :
          cohortData[a].cohort = cohortData[b].cohort => a = b
    /\ {cohortData[a].cohort : a \in Cohorts} =
          {metrics[FirstPosition(revenueAt(c))].date :
              c \in {c \in Customers : revenueAt(c) # {}}}
    /\ \A a \in Cohorts :
          cohortData[a].initialCustomers =
              Cardinality({c \in Customers :
                  /\ revenueAt(c) # {}
                  /\ metrics[FirstPosition(revenueAt(c))].date = cohortData[a].cohort})
    /\ \A c \in 1..Len(customerSummaries) :
          customerSummaries[c].startDate = FirstMonthOf(revenueAt(c))

\* C15 as stated: every stored customer with an axis month of nonzero
\* revenue is in exactly one cohort, keyed by its first such month; a
\* customer with none is in no cohort; initialCustomers is the member count;
\* the month of a customer's cohort is its summary's startDate.
C15_CohortOfFirstNonzeroMonth == CohortMembership(NonzeroPositions)

\* C15: as above with revenue > 0 in place of nonzero revenue.
C15_CohortOfFirstPaidMonth == CohortMembership(PaidPositions)

\* Two customers: one pays -1 and then 1, the other never pays; the only
\* cohort is the second month's, with one member.
C15_Witness ==
    /\ Len(customerData) = 2
    /\ Len(metrics) >= 2
    /\ AmountAt(1, metrics[1].date) = RInt(-1)
    /\ AmountAt(1, metrics[2].date) = RInt(1)
    /\ PaidPositions(2) = {}
    /\ Len(cohortData) = 1
    /\ cohortData[1].cohort = metrics[2].date
    /\ cohortData[1].initialCustomers = 1

\* The axis position of the month of cohort a, and the members of cohort a:
\* the customers whose first month with revenue > 0 is the cohort's.
CohortPosition(a) == CHOOSE i \in 1..Len(metrics) : metrics[i].date = cohortData[a].cohort
MembersOf(a) ==
    {c \in Customers :
        /\ PaidPositions(c) # {}
        /\ metrics[FirstPosition(PaidPositions(c))].date = cohortData[a].cohort}

\* C16 as stated: a cohort whose month is at axis position c, with L the last
\* position, has L - c + 1 periods; period p refers to the axis month at
\* position c + p: retained is the number of members with an amount > 0 in
\* that month, revenue the sum of the members' amounts in it, and
\* retentionRate is retained / cohort size * 100.
C16_PeriodsFollowTheAxis ==
    \A a \in Cohorts :
        /\ Len(cohortData[a].periods) = Len(metrics) - CohortPosition(a) + 1
        /\ \A p \in 0..(Len(metrics) - CohortPosition(a)) :
              /\ cohortData[a].periods[p + 1].retained =
                    Cardinality(MembersOf(a) \cap ActiveAt(metrics[CohortPosition(a) + p].date))
              /\ cohortData[a].periods[p + 1].revenue =
                    SumAt(MembersOf(a), metrics[CohortPosition(a) + p].date)
              /\ cohortData[a].periods[p + 1].retentionRate =
                    RMul(RDiv(RInt(cohortData[a].periods[p + 1].retained),
                              RInt(cohortData[a].initialCustomers)), RInt(100))

\* C17: every cohort has a period 0, whose revenueRate is 100; at every
\* later period revenueRate is the period's revenue over initialRevenue,
\* times 100, and 0 when initialRevenue is 0; initialRevenue is the sum of
\* the members' amounts in the cohort month.
C17_RevenueRate ==
    \A a \in Cohorts :
        /\ cohortData[a].initialCustomers >= 1
        /\ cohortData[a].initialRevenue = SumAt(MembersOf(a), cohortData[a].cohort)
        /\ Len(cohortData[a].periods) >= 1
        /\ cohortData[a].periods[1].revenueRate = RInt(100)
        /\ \A p \in 2..Len(cohortData[a].periods) :
              cohortData[a].periods[p].revenueRate =
                  IF cohortData[a].initialRevenue = Zero THEN Zero
                  ELSE RMul(RDiv(cohortData[a].periods[p].revenue,
                                 cohortData[a].initialRevenue), RInt(100))

\* A cohort of two members paying 1 each, one of which pays in the next
\* month: the revenue rate goes from 100 to 50.
C17_Witness ==
    \E a \in Cohorts :
        /\ cohortData[a].initialCustomers = 2
        /\ cohortData[a].initialRevenue = RInt(2)
        /\ Len(cohortData[a].periods) >= 2
        /\ cohortData[a].periods[1].revenueRate = RInt(100)
        /\ cohortData[a].periods[2].revenue = RInt(1)
        /\ cohortData[a].periods[2].revenueRate = RInt(50)

\* C18: for every cohort and every period, retentionRate is within [0, 100],
\* and at period 0 it is 100.
C18_RetentionRateRange ==
    \A a \in Cohorts :
        /\ \A p \in 1..Len(cohortData[a].periods) :
              /\ RGe(cohortData[a].periods[p].retentionRate, Zero)
              /\ RGe(RInt(100), cohortData[a].periods[p].retentionRate)
        /\ cohortData[a].periods # <<>> => cohortData[a].periods[1].retentionRate = RInt(100)

\* A cohort whose only member pays once and then a negative amount: the
\* retention goes from 100 to 0.
C18_Witness ==
    \E a \in Cohorts :
        /\ cohortData[a].initialCustomers = 1
        /\ Len(cohortData[a].periods) >= 2
        /\ cohortData[a].periods[1].retentionRate = RInt(100)
        /\ cohortData[a].periods[2].revenue = RInt(-1)
        /\ cohortData[a].periods[2].retentionRate = Zero

(***************************************************************************)
(* What the claims about the run of the engine as a whole speak of.        *)
(***************************************************************************)
\* C19 as stated: calculateMetrics and calculateCohortData never raise.
C19_NeverRaises == raised = FALSE

\* The month keys of all stored rows.
AllMonthKeys == UNION {DOMAIN customerData[c].cells : c \in Customers}

\* C20 as stated: when the engine has run to its end, the dates of the
\* metrics are the distinct month keys of all stored rows, one metric per
\* key, in ascending order.
C20_AxisOfAllRecords ==
    raised = FALSE =>
        /\ {metrics[i].date : i \in 1..Len(metrics)} = AllMonthKeys
        /\ \A i \in 1..(Len(metrics) - 1) : metrics[i].date < metrics[i + 1].date

(***************************************************************************)
(* What the claims about the engine as a whole speak of: the rows the      *)
(* selected file delivers, and each of the four artifacts computed from    *)
(* the stored rows on its own.                                             *)
(***************************************************************************)
\* The rows the file input's file delivers, Totals and empty names dropped.
SelectedRows == FilterRows(selected[1])

\* The engine's own reading of the month columns of a matrix.
AxisOf(matrix) == DateColumnsOf(FilterRows(matrix))

MetricsFor(matrix) ==
    IF matrix = <<>> THEN <<>>
    ELSE RollUp(matrix, MetricsData(matrix, AxisOf(matrix)))

SummariesFor(matrix) ==
    IF matrix = <<>> THEN <<>> ELSE Summaries(matrix, AxisOf(matrix))

CohortsFor(matrix) ==
    IF matrix = <<>> THEN <<>>
    ELSE IF AxisOf(matrix) = <<>> THEN <<>>
    ELSE calculateCohortData(matrix, AxisOf(matrix))

\* A step in which the engine runs on the rows of the i-th parse in flight.
EngineRuns(i) == ~renderRaised /\ pending' = Remove(pending, i) /\ customerData' = FilterRows(pending[i])

\* C22: every run of the engine leaves the monthly metrics (with their
\* quarterly fields), the customer summaries and the cohort table that its
\* matrix determines, whatever earlier runs on other matrices have left.
C22_RunsDependOnTheMatrixAlone ==
    [][\A i \in 1..Len(pending) :
          EngineRuns(i) =>
              /\ metrics' = MetricsFor(FilterRows(pending[i]))
              /\ customerSummaries' = SummariesFor(FilterRows(pending[i]))
              /\ cohortData' = CohortsFor(FilterRows(pending[i]))]_vars

\* A customer whose only amount is 1, at month m.
PayingAt(m) == [Customer |-> <<"A">>, cells |-> (m :> <<"1">>)]

\* C23: the cohort of an acquisition month strictly after the latest month
\* is emitted with no period and an initial revenue of 0, even when its
\* member pays in that month; and every cohort of the stored table has its
\* month on the period axis, not after the axis's last month, and so has at
\* least the period of its own month.
C23_FutureCohortIsPlaceholderAndNeverProduced ==
    /\ \A i, j \in 1..Len(Months) :
          Months[j] > Months[i] =>
              /\ CohortFrom(<<PayingAt(Months[j])>>, Months[i], Months[j]).periods = <<>>
              /\ CohortFrom(<<PayingAt(Months[j])>>, Months[i], Months[j]).initialRevenue = Zero
    /\ \A a \in Cohorts :
          /\ \E i \in 1..Len(metrics) : metrics[i].date = cohortData[a].cohort
          /\ cohortData[a].cohort <= AxisLast
          /\ cohortData[a].periods # <<>>

\* A cohort acquired in the last month of a four-month axis, next to an
\* earlier one.
C23_Witness ==
    /\ Len(metrics) = 4
    /\ Len(cohortData) = 2
    /\ \E a \in Cohorts : cohortData[a].cohort = AxisLast /\ Len(cohortData[a].periods) = 1

\* C24: in every reachable state the stored metrics, customer summaries and
\* cohort table are those of the stored customerData, and metrics is empty
\* whenever customerData is.
C24_ResultsBelongToCustomerData ==
    /\ metrics = MetricsFor(customerData)
    /\ customerSummaries = SummariesFor(customerData)
    /\ cohortData = CohortsFor(customerData)
    /\ metrics # <<>> => customerData # <<>>

\* C25: once no parse is in flight, what the application holds (unless it
\* has been cleared since) is the most recently selected file: its rows,
\* and the metrics, summaries and cohort table of those rows.
C25_LatestSelectionWins ==
    pending = <<>> /\ selected # <<>> /\ ~NoStoredData =>
        /\ customerData = SelectedRows
        /\ metrics = MetricsFor(SelectedRows)
        /\ customerSummaries = SummariesFor(SelectedRows)
        /\ cohortData = CohortsFor(SelectedRows)

\* The state array a localStorage key belongs to.
StateOf(key) ==
    IF key = "customerData" THEN customerData
    ELSE IF key = "metrics" THEN metrics
    ELSE IF key = "customerSummaries" THEN customerSummaries
    ELSE cohortData

StorageKeys == DOMAIN NoItems

\* A step that runs clearStoredData: a file is selected, or Clear Data is
\* pressed while the dashboard is shown and something is stored.
Clears == Len(pending') > Len(pending) \/ (pending' = pending /\ ~NoStoredData /\ NoStoredData')

\* C26: a step that runs clearStoredData leaves the four keys absent and the
\* five arrays empty; a key appears or changes only in a step in which a
\* parse completes and leaves its array non-empty; and whenever no parse is
\* in flight, every key present holds the JSON text of its current array.
C26_StorageFollowsState ==
    /\ [][Clears => storage' = NoItems /\ NoStoredData']_vars
    /\ [][\A key \in StorageKeys :
            storage'[key] # <<>> /\ storage'[key] # storage[key] =>
                Len(pending') < Len(pending) /\ (StateOf(key) # <<>>)']_vars
    /\ [](pending = <<>> =>
            \A key \in StorageKeys :
                storage[key] # <<>> => storage[key] = <<JSONstringify(StateOf(key))>>)

\* Every displayed row is one of the current summaries.
DisplayedAreSummaries ==
    \A i \in 1..Len(filteredCustomers) :
        \E j \in 1..Len(customerSummaries) : customerSummaries[j] = filteredCustomers[i]

\* A step in which the row of cohort a is clicked.
ClicksOn(a) ==
    /\ Shown
    /\ handleCohortClick(cohortData[a].cohort)
    /\ UNCHANGED <<pending, customerData, metrics, customerSummaries, cohortData,
                   storage, renderRaised, selected>>

\* C27: in every reachable state every displayed row is a current summary,
\* and a click on a cohort row displays as many rows as the cohort's
\* initialCustomers.
C27_DisplayedRowsAndCohortClick ==
    /\ []DisplayedAreSummaries
    /\ [][\A a \in Cohorts :
            ClicksOn(a) => Len(filteredCustomers') = cohortData[a].initialCustomers]_vars

\* C28: whenever metrics is not empty the render of the Key Metrics cards
\* completes without raising, whatever the length of the series.
C28_KeyMetricsNeverRaise == metrics # <<>> => renderRaised = FALSE

\* The calendar month after month key k, and the one three months before.
MonthAfter(k) == IF k % 100 = 12 THEN k + 89 ELSE k + 1
ThreeMonthsBefore(k) == IF k % 100 <= 3 THEN k - 91 ELSE k - 3

\* Every axis month is the calendar month after the one before it.
ContiguousAxis ==
    \A i \in 1..(Len(metrics) - 1) : metrics[i + 1].date = MonthAfter(metrics[i].date)

\* C29: on a contiguous axis, for every quarter-end metric, quarterlyGrowth
\* equals growthRate; and from period index 3 on, the month three calendar
\* months before it is the month three positions before it on the axis.
C29_QuarterlyGrowthIsGrowthRate ==
    ContiguousAxis =>
        \A i \in QuarterEnds :
            /\ metrics[i].quarterly[1].quarterlyGrowth = metrics[i].growthRate
            /\ i - 1 >= 3 => ThreeMonthsBefore(metrics[i].date) = metrics[i - 3].date

\* A quarter end at period index 3 of a contiguous axis whose mrr has grown
\* over the quarter.
C29_Witness ==
    /\ ContiguousAxis
    /\ Len(metrics) = 4
    /\ 4 \in QuarterEnds
    /\ metrics[4].growthRate # Zero
    /\ metrics[1].mrr # Zero

\* The cohorts acquired at or before axis position i, and the period of
\* cohort a that corresponds to position i.
CohortsBy(i) == {a \in Cohorts : CohortPosition(a) <= i}
PeriodAt(a, i) == cohortData[a].periods[i - CohortPosition(a) + 1]

\* Over the cohorts acquired by position i: the retained counts, and the
\* revenues, of the periods that correspond to position i.
RetainedOver(i) ==
    SumRat([a \in Cohorts |->
        IF a \in CohortsBy(i) THEN RInt(PeriodAt(a, i).retained) ELSE Zero])
RevenueOver(i) ==
    SumRat([a \in Cohorts |->
        IF a \in CohortsBy(i) THEN PeriodAt(a, i).revenue ELSE Zero])

\* No stored customer has a negative amount at an axis month.
NoNegativeAmount ==
    \A c \in Customers : \A i \in 1..Len(metrics) : RGe(AmountAt(c, metrics[i].date), Zero)

\* C30: on a contiguous axis, at every axis month the retained counts of
\* the cohorts' corresponding periods add up to activeCustomers and, when
\* no amount is negative, their revenues add up to mrr; every cohort has a
\* period for each axis month from its own on, and the cohort sizes add up
\* to the number of customers with a paid month.
C30_CohortConservation ==
    ContiguousAxis /\ ~raised =>
        /\ \A a \in Cohorts :
              Len(cohortData[a].periods) = Len(metrics) - CohortPosition(a) + 1
        /\ \A i \in 1..Len(metrics) :
              /\ RetainedOver(i) = RInt(metrics[i].activeCustomers)
              /\ NoNegativeAmount => RevenueOver(i) = metrics[i].mrr
        /\ SumRat([a \in Cohorts |-> RInt(cohortData[a].initialCustomers)])
              = RInt(Cardinality({c \in Customers : PaidPositions(c) # {}}))

\* Two cohorts over three months, both active in the second month and
\* churned in the third, no negative amount.
C30_Witness ==
    /\ ContiguousAxis
    /\ NoNegativeAmount
    /\ Len(metrics) = 3
    /\ Len(cohortData) = 2
    /\ metrics[2].activeCustomers = 2
    /\ metrics[3].activeCustomers = 0

=============================================================================
